---- MODULE Spec2Model ----
(***************************************************************************)
(* A model of the code sandbox server in src/main.py: the registry of the  *)
(* persistent container, the public operations on containers, and the path *)
(* arithmetic they perform on caller-supplied strings.                     *)
(*                                                                         *)
(* Strings are sequences of characters.  The characters are "/" and ".",   *)
(* which the path functions interpret, and opaque letters ("a", "app",     *)
(* "w1", ...) each of which stands for a non-empty run of characters that  *)
(* holds neither a separator nor a dot.                                    *)
(***************************************************************************)
EXTENDS Integers, Sequences, FiniteSets, TLC

VARIABLES
    docker_available,          \* main.py:39 module global, set once at import
    persistent_container_id,   \* main.py:46 module global, 0 models None
    container_lock,            \* main.py:47 threading.Lock: 0 free, else the holder
    containers,                \* the engine's containers: id -> [state, named]
    fs,                        \* each container's filesystem: id -> [dirs, files]
    localfs,                   \* the server's local filesystem: path -> bytes
    phase,                     \* "boot" before __main__ ran, "booting" inside
                               \* start_persistent_container, "serve" afterwards
    uuids,                     \* how many uuid4 tokens have been generated
    th,                        \* the position and locals of each in-flight caller
    created,                   \* history: ids created with the persistent profile
    returned,                  \* history: ids handed back by calls that acquire the
                               \* persistent container
    cleaned,                   \* history: <<container, workspace>> cleaned and not
                               \* written into since
    budget,                    \* the operations the model still serves, when limited
    last                       \* the last completed operation: arguments, result, engine calls

vars == <<docker_available, persistent_container_id, container_lock, containers,
          fs, localfs, phase, uuids, th, created, returned, cleaned,
          budget, last>>

----------------------------------------------------------------------------
(* Bounds of the model *)

MaxPathLen == 3       \* longest caller-supplied path drawn in SpecPath
MaxContainers == 2    \* containers the engine creates in one run of the model
NThreads == 2         \* callers that can be inside an operation at once
MaxWorkspaces == 2    \* workspace tokens uuid4 hands out in one run of the model
MaxOps == 2           \* operations served in one run of SpecFiles, SpecClean
MaxPathOps == 1       \* transfer operations served in one run of SpecPath
MaxBatch == 3         \* longest command list given to sandbox_exec

----------------------------------------------------------------------------
(* Strings *)

None == <<"None">>    \* Python's None for an optional string argument

PathChars == {"/", ".", "a"}

RECURSIVE StringsUpTo(_)
StringsUpTo(n) ==
    IF n = 0 THEN {<<>>}
    ELSE LET S == StringsUpTo(n - 1)
         IN  S \cup {Append(s, c) : s \in {t \in S : Len(t) = n - 1}, c \in PathChars}

startswith_slash(s) == Len(s) > 0 /\ s[1] = "/"

endswith_slash(s) == Len(s) > 0 /\ s[Len(s)] = "/"

RECURSIVE lstrip_slash(_)
lstrip_slash(s) ==
    IF startswith_slash(s) THEN lstrip_slash(Tail(s)) ELSE s

RECURSIVE rstrip_slash(_)
rstrip_slash(s) ==
    IF endswith_slash(s) THEN rstrip_slash(SubSeq(s, 1, Len(s) - 1)) ELSE s

\* index of the last "/" of s, 0 when there is none (str.rfind + 1)
RECURSIVE rfind_slash(_)
rfind_slash(s) ==
    IF Len(s) = 0 THEN 0
    ELSE IF s[Len(s)] = "/" THEN Len(s)
    ELSE rfind_slash(SubSeq(s, 1, Len(s) - 1))

\* posixpath.join(a, b)
path_join(a, b) ==
    IF startswith_slash(b) THEN b
    ELSE IF Len(a) = 0 \/ endswith_slash(a) THEN a \o b
    ELSE a \o <<"/">> \o b

\* posixpath.dirname(p)
path_dirname(p) ==
    LET head == SubSeq(p, 1, rfind_slash(p))
    IN  IF Len(head) > 0 /\ rstrip_slash(head) # <<>> THEN rstrip_slash(head) ELSE head

\* posixpath.basename(p)
path_basename(p) == SubSeq(p, rfind_slash(p) + 1, Len(p))

\* the segments of p between separators, empty segments included
RECURSIVE Segments(_)
Segments(p) ==
    IF rfind_slash(p) = 0 THEN <<p>>
    ELSE Append(Segments(SubSeq(p, 1, rfind_slash(p) - 1)), path_basename(p))

DotDot == <<".", ".">>

\* The absolute location a path names in a container: the engine resolves it
\* from the root, dropping empty and "." segments and stepping up on "..".
RECURSIVE ResolveSegs(_, _)
ResolveSegs(segs, acc) ==
    IF Len(segs) = 0 THEN acc
    ELSE LET s == Head(segs)
         IN  IF s = <<>> \/ s = <<".">> THEN ResolveSegs(Tail(segs), acc)
             ELSE IF s = DotDot
                  THEN ResolveSegs(Tail(segs),
                                   IF Len(acc) = 0 THEN acc ELSE SubSeq(acc, 1, Len(acc) - 1))
             ELSE ResolveSegs(Tail(segs), Append(acc, s))

Location(p) == ResolveSegs(Segments(p), <<>>)

IsPrefix(a, b) == Len(a) <= Len(b) /\ SubSeq(b, 1, Len(a)) = a

Inside(p, root) == IsPrefix(Location(root), Location(p))

HasDotDot(p) == \E i \in 1..Len(Segments(p)) : Segments(p)[i] = DotDot

----------------------------------------------------------------------------
(* Path arithmetic of the transfer operations *)

AppRoot == <<"/", "app">>

WorkspacesRoot == <<"/", "app", "/", "workspaces", "/">>

\* one directory for all the workspaces
BaseDir_shared(workspace_id) ==
    IF workspace_id # None THEN WorkspacesRoot \o <<"shared">> ELSE AppRoot
\* base_dir = f"/app/workspaces/{workspace_id}" if workspace_id is not None else "/app"
BaseDir(workspace_id) ==
    IF workspace_id # None THEN WorkspacesRoot \o workspace_id ELSE AppRoot

\* "if dest.startswith('/'): dest = dest.lstrip('/')"
Sanitize_keep(dest) == dest
Sanitize(dest) ==
    IF startswith_slash(dest) THEN lstrip_slash(dest) ELSE dest

\* target_dir of write_file_sandbox and copy_project
TargetDir(workspace_id, dest_dir) ==
    IF dest_dir = None THEN BaseDir(workspace_id)
    ELSE path_join(BaseDir(workspace_id), Sanitize(dest_dir))

\* the directory write_file_sandbox hands to put_archive
WriteFilePutDir(workspace_id, dest_dir) ==
    LET t == TargetDir(workspace_id, dest_dir)
    IN  IF endswith_slash(t) THEN SubSeq(t, 1, Len(t) - 1) ELSE t

\* full_dest_path of copy_file
FullDestPath(workspace_id, local_src_file, dest_path) ==
    LET d == IF dest_path = None THEN path_basename(local_src_file) ELSE dest_path
    IN  BaseDir(workspace_id) \o <<"/">> \o Sanitize(d)

\* an archive put into the root of the container whatever the destination
CopyFilePutDir_root(full_dest_path) == <<"/">>
\* line 463: the directory copy_file hands to put_archive
CopyFilePutDir(full_dest_path) ==
    IF path_dirname(full_dest_path) # <<>> THEN path_dirname(full_dest_path) ELSE <<"/">>

----------------------------------------------------------------------------
(* The container engine *)

Ids == 1..MaxContainers

Threads == 1..NThreads

Live == {"created", "running", "exited"}

NoContainer == [state |-> "none", named |-> FALSE]

Exists(id) == id \in Ids /\ containers[id].state \in Live

Running(id) == id \in Ids /\ containers[id].state = "running"

\* docker_client.containers.get(PERSISTENT_CONTAINER_NAME): the id, 0 for NotFound
ByName ==
    IF \E i \in Ids : Exists(i) /\ containers[i].named
    THEN CHOOSE i \in Ids : Exists(i) /\ containers[i].named
    ELSE 0

\* the id the engine gives the next container, 0 when the model's supply is spent
FreshId ==
    IF \E i \in Ids : containers[i].state = "none"
    THEN CHOOSE i \in Ids : containers[i].state = "none" /\
                            \A j \in Ids : containers[j].state = "none" => i <= j
    ELSE 0

\* the filesystem of a container started from the image with working_dir="/app"
NewFs == [dirs |-> {<<>>, <<<<"app">>>>}, files |-> {}]

\* the directories "mkdir -p p" leaves behind: every prefix of every location visited
RECURSIVE MkdirWalk(_, _, _)
MkdirWalk(segs, acc, made) ==
    IF Len(segs) = 0 THEN made
    ELSE LET s == Head(segs)
         IN  IF s = <<>> \/ s = <<".">> THEN MkdirWalk(Tail(segs), acc, made)
             ELSE IF s = DotDot
                  THEN MkdirWalk(Tail(segs),
                                 IF Len(acc) = 0 THEN acc ELSE SubSeq(acc, 1, Len(acc) - 1),
                                 made)
             ELSE MkdirWalk(Tail(segs), Append(acc, s), made \cup {Append(acc, s)})

IsFile(f, loc) == \E x \in f.files : x[1] = loc

\* "mkdir -p p" in a running container: the filesystem afterwards (the exit status
\* is ignored by every caller); nothing is made past a component that is a file
MkdirP(f, p) ==
    LET made == MkdirWalk(Segments(p), <<>>, {})
    IN  IF \E d \in made : IsFile(f, d) THEN f
        ELSE [f EXCEPT !.dirs = @ \cup made]

\* an rm that leaves the tree where it is
RmRf_keep(f, p) == f
\* "rm -rf p": the tree at p is gone; rm refuses a last component of "." or ".."
RmRf(f, p) ==
    LET segs == Segments(rstrip_slash(p))
        lastseg == segs[Len(segs)]
        loc == Location(p)
    IN  IF lastseg = DotDot \/ lastseg = <<".">> \/ loc = <<>> THEN f
        ELSE [dirs |-> {d \in f.dirs : ~IsPrefix(loc, d)},
              files |-> {x \in f.files : ~IsPrefix(loc, x[1])}]

----------------------------------------------------------------------------
(* Results of the public operations *)

\* A returned dict: its keys, and the values the properties read.  err is the
\* prefix of the error message and the kind of failure that produced it; warned
\* counts the exceptions raised inside the inner try blocks of the operation.
NoLast ==
    [op |-> "none", cid |-> 0, ws |-> None, arg |-> None, flag |-> FALSE,
     ok |-> FALSE, err |-> <<>>, keys |-> {}, calls |-> <<>>,
     ret_cid |-> 0, ret_ws |-> None, path |-> <<>>, size |-> 0,
     data |-> <<>>, commands |-> <<>>, results |-> <<>>, ran |-> <<>>,
     warned |-> 0]

\* {"success": False, "error": "Docker服务不可用"}
Unavailable(op, cid, ws, arg, flag) ==
    [NoLast EXCEPT !.op = op, !.cid = cid, !.ws = ws, !.arg = arg, !.flag = flag,
                   !.err = <<"unavailable">>, !.keys = {"success", "error"}]

\* an exception that leaves the operation
Failed_uncaught(r, calls, kind) ==
    [r EXCEPT !.ok = FALSE, !.err = <<"raised", kind>>, !.keys = {}, !.calls = calls]
\* {"success": False, "error": f"<prefix>: {str(e)}"} from the except clause of op
Failed(r, calls, kind) ==
    [r EXCEPT !.ok = FALSE, !.err = <<"failed", kind>>, !.keys = {"success", "error"},
              !.calls = calls]

WsNames == <<"w1", "w2", "w3", "w4">>

\* str(uuid.uuid4()): a token no earlier call was given
WsToken(n) == <<WsNames[n]>>

----------------------------------------------------------------------------
(* ensure_persistent_container and sandbox_initialize(use_persistent=True),  *)
(* one engine round trip per step                                            *)

IdleThread == [pc |-> "idle", op |-> "none", e |-> 0, ret |-> 0, ws |-> None, conc |-> FALSE]

Quiet == \A t \in Threads : th[t].pc = "idle"

\* a lock that stays held when its holder leaves
Release_held(t) == container_lock' = container_lock
\* leaving "with container_lock:" by return or by exception
Release(t) == container_lock' = IF container_lock = t THEN 0 ELSE container_lock

InitRecord(t) == [NoLast EXCEPT !.op = "sandbox_initialize", !.flag = TRUE]

\* an exception leaves the call: sandbox_initialize returns its failure dict,
\* start_persistent_container logs it, ensure_persistent_container re-raises it
Raise(t, kind) ==
    /\ Release(t)
    /\ UNCHANGED returned
    /\ th' = [th EXCEPT ![t] = IdleThread]
    /\ phase' = IF th[t].op = "startup" THEN "serve" ELSE phase
    /\ last' = CASE th[t].op = "init" -> Failed(InitRecord(t), <<>>, kind)
                 [] th[t].op = "ensure" ->
                        [NoLast EXCEPT !.op = "ensure_persistent_container",
                                       !.err = <<"raised", kind>>]
                 [] OTHER -> last

\* ensure_persistent_container returns id (lines 69, 81, 121)
Return(t, id) ==
    /\ Release(t)
    /\ returned' = IF th[t].op = "init" THEN returned ELSE returned \cup {id}
    /\ phase' = IF th[t].op = "startup" THEN "serve" ELSE phase
    /\ th' = [th EXCEPT ![t] =
                 IF th[t].op = "init"
                 THEN [@ EXCEPT !.pc = "init_get2", !.e = id]
                 ELSE [IdleThread EXCEPT !.ret = id, !.conc = th[t].conc]]
    /\ last' = IF th[t].op = "ensure"
               THEN [NoLast EXCEPT !.op = "ensure_persistent_container", !.ok = TRUE,
                                   !.ret_cid = id]
               ELSE last

\* the container PERSISTENT_CONTAINER_NAME stands for in containers.run (line 93)
PersistentProfile_unnamed == [state |-> "running", named |-> FALSE]
PersistentProfile == [state |-> "running", named |-> TRUE]

\* main.py:802-803 and 782-789: the start of the process
start_persistent_container ==
    /\ phase = "boot"
    /\ \E no_persistent \in BOOLEAN :
          IF no_persistent \/ ~docker_available
          THEN /\ phase' = "serve"
               /\ UNCHANGED th
          ELSE /\ phase' = "booting"
               /\ th' = [th EXCEPT ![1] = [IdleThread EXCEPT !.pc = "ens_lock",
                                                               !.op = "startup"]]
    /\ UNCHANGED <<docker_available, returned, cleaned, budget, persistent_container_id,
                   container_lock, containers, fs, localfs, uuids, created, last>>

\* a caller enters ensure_persistent_container
ensure_call(t) ==
    /\ phase = "serve" /\ th[t].pc = "idle"
    /\ docker_available
    /\ th' = [th EXCEPT ![t] = [IdleThread EXCEPT !.pc = "ens_lock", !.op = "ensure",
                   !.conc = \E u \in Threads : u # t /\ th[u].pc # "idle"]]
    /\ UNCHANGED <<docker_available, returned, cleaned, budget, persistent_container_id,
                   container_lock, containers, fs, localfs, phase, uuids, created, last>>

\* sandbox_initialize(use_persistent=True), lines 138-145; the token uuid4 will
\* give this call (lines 150, 167) is drawn here
sandbox_initialize_call(t) ==
    /\ phase = "serve" /\ th[t].pc = "idle"
    /\ uuids < MaxWorkspaces
    /\ IF ~docker_available
       THEN /\ last' = Unavailable("sandbox_initialize", 0, None, None, TRUE)
            /\ UNCHANGED th
       ELSE /\ th' = [th EXCEPT ![t] = [IdleThread EXCEPT !.pc = "init_get", !.op = "init",
                         !.ws = WsToken(uuids + 1),
                         !.conc = \E u \in Threads : u # t /\ th[u].pc # "idle"]]
            /\ UNCHANGED last
    /\ uuids' = IF docker_available THEN uuids + 1 ELSE uuids
    /\ UNCHANGED <<docker_available, returned, cleaned, budget, persistent_container_id,
                   container_lock, containers, fs, localfs, phase, created>>

\* line 148: docker_client.containers.get(PERSISTENT_CONTAINER_NAME)
init_get(t) ==
    /\ th[t].pc = "init_get"
    /\ \E fault \in BOOLEAN :
          IF fault THEN Raise(t, "EngineError")
          ELSE IF ByName # 0
          THEN /\ th' = [th EXCEPT ![t].pc = "init_mkdir", ![t].e = ByName]
               /\ UNCHANGED <<container_lock, phase, last, returned>>
          ELSE /\ th' = [th EXCEPT ![t].pc = "ens_lock"]
               /\ UNCHANGED <<container_lock, phase, last, returned>>
    /\ UNCHANGED <<docker_available, cleaned, budget, persistent_container_id, containers,
                   fs, localfs, uuids, created>>

\* lines 154-163 and 172-180: exec_run(["mkdir", "-p", workspace_path]) and the result
init_mkdir(t) ==
    /\ th[t].pc = "init_mkdir"
    /\ \E fault \in BOOLEAN :
          IF fault \/ ~Running(th[t].e)
          THEN Raise(t, IF Exists(th[t].e) \/ fault THEN "EngineError" ELSE "NotFound")
               /\ UNCHANGED fs
          ELSE /\ fs' = [fs EXCEPT ![th[t].e] = MkdirP(@, WorkspacesRoot \o th[t].ws)]
               /\ th' = [th EXCEPT ![t] = [IdleThread EXCEPT !.ret = th[t].e,
                                                               !.conc = th[t].conc]]
               /\ last' = [InitRecord(t) EXCEPT !.ok = TRUE, !.ret_cid = th[t].e,
                              !.ret_ws = th[t].ws,
                              !.path = WorkspacesRoot \o th[t].ws,
                              !.keys = {"success", "container_id", "workspace_id",
                                        "workspace_path", "mode"}]
               /\ returned' = returned \cup {th[t].e}
               /\ UNCHANGED <<container_lock, phase>>
    /\ UNCHANGED <<docker_available, cleaned, budget, persistent_container_id, containers,
                   localfs, uuids, created>>

\* line 63: with container_lock
ens_lock(t) ==
    /\ th[t].pc = "ens_lock"
    /\ container_lock = 0
    /\ container_lock' = t
    /\ th' = [th EXCEPT ![t].pc = "ens_cache"]
    /\ UNCHANGED <<docker_available, returned, cleaned, budget, persistent_container_id,
                   containers, fs, localfs, phase, uuids, created, last>>

\* lines 64-72: the cached identity
ens_cache(t) ==
    /\ th[t].pc = "ens_cache"
    /\ IF persistent_container_id = 0
       THEN /\ th' = [th EXCEPT ![t].pc = "ens_byname"]
            /\ UNCHANGED <<persistent_container_id, container_lock, phase, last, returned>>
       ELSE \E fault \in BOOLEAN :
               IF fault THEN Raise(t, "EngineError") /\ UNCHANGED persistent_container_id
               ELSE IF Running(persistent_container_id)
               THEN Return(t, persistent_container_id) /\ UNCHANGED persistent_container_id
               ELSE /\ persistent_container_id' =
                          IF Exists(persistent_container_id) THEN persistent_container_id
                          ELSE 0
                    /\ th' = [th EXCEPT ![t].pc = "ens_byname"]
                    /\ UNCHANGED <<container_lock, phase, last, returned>>
    /\ UNCHANGED <<docker_available, cleaned, budget, containers, fs, localfs, uuids,
                   created>>

\* lines 75-83: the container of the well-known name
ens_byname(t) ==
    /\ th[t].pc = "ens_byname"
    /\ \E fault \in BOOLEAN :
          IF fault THEN Raise(t, "EngineError") /\ UNCHANGED persistent_container_id
          ELSE IF ByName = 0
          THEN /\ th' = [th EXCEPT ![t].pc = "ens_pull"]
               /\ UNCHANGED <<persistent_container_id, container_lock, phase, last, returned>>
          ELSE IF ~Running(ByName)
          THEN /\ th' = [th EXCEPT ![t].pc = "ens_start", ![t].e = ByName]
               /\ UNCHANGED <<persistent_container_id, container_lock, phase, last, returned>>
          ELSE /\ persistent_container_id' = ByName
               /\ Return(t, ByName)
    /\ UNCHANGED <<docker_available, cleaned, budget, containers, fs, localfs, uuids,
                   created>>

\* lines 78-83: existing.start(), NotFound falls through to the creation
ens_start(t) ==
    /\ th[t].pc = "ens_start"
    /\ \E fault \in BOOLEAN :
          IF ~Exists(th[t].e)
          THEN /\ th' = [th EXCEPT ![t].pc = "ens_pull"]
               /\ UNCHANGED <<persistent_container_id, container_lock, phase, last, returned,
                              containers>>
          ELSE IF fault
          THEN Raise(t, "EngineError") /\ UNCHANGED <<persistent_container_id, containers>>
          ELSE /\ containers' = [containers EXCEPT ![th[t].e].state = "running"]
               /\ persistent_container_id' = th[t].e
               /\ Return(t, th[t].e)
    /\ UNCHANGED <<docker_available, cleaned, budget, fs, localfs, uuids, created>>

\* line 88: docker_client.images.pull(DEFAULT_IMAGE)
ens_pull(t) ==
    /\ th[t].pc = "ens_pull"
    /\ \E fault \in BOOLEAN :
          IF fault THEN Raise(t, "EngineError")
          ELSE /\ th' = [th EXCEPT ![t].pc = "ens_run"]
               /\ UNCHANGED <<container_lock, phase, last, returned>>
    /\ UNCHANGED <<docker_available, cleaned, budget, persistent_container_id, containers,
                   fs, localfs, uuids, created>>

\* lines 91-116: containers.run creates the container, then starts it; a name in
\* use is refused at the creation, a failed start leaves the container behind
ens_run(t) ==
    /\ th[t].pc = "ens_run"
    /\ \E outcome \in {"ok", "create_failed", "start_failed"} :
          IF outcome = "create_failed" \/ FreshId = 0
             \/ (PersistentProfile.named /\ ByName # 0)
          THEN Raise(t, "EngineError")
               /\ UNCHANGED <<persistent_container_id, containers, fs, created>>
          ELSE IF outcome = "start_failed"
          THEN /\ containers' = [containers EXCEPT ![FreshId] =
                                    [PersistentProfile EXCEPT !.state = "created"]]
               /\ fs' = [fs EXCEPT ![FreshId] = NewFs]
               /\ created' = created \cup {FreshId}
               /\ Raise(t, "EngineError")
               /\ UNCHANGED persistent_container_id
          ELSE /\ containers' = [containers EXCEPT ![FreshId] = PersistentProfile]
               /\ fs' = [fs EXCEPT ![FreshId] = NewFs]
               /\ created' = created \cup {FreshId}
               /\ persistent_container_id' = FreshId
               /\ th' = [th EXCEPT ![t].pc = "ens_mkdir", ![t].e = FreshId]
               /\ UNCHANGED <<container_lock, phase, last, returned>>
    /\ UNCHANGED <<docker_available, cleaned, budget, localfs, uuids>>

\* lines 119-121: container.exec_run(["mkdir", "-p", "/app/workspaces"]); return
ens_mkdir(t) ==
    /\ th[t].pc = "ens_mkdir"
    /\ \E fault \in BOOLEAN :
          IF fault \/ ~Running(th[t].e)
          THEN Raise(t, "EngineError") /\ UNCHANGED fs
          ELSE /\ fs' = [fs EXCEPT ![th[t].e] = MkdirP(@, WorkspacesRoot)]
               /\ Return(t, th[t].e)
    /\ UNCHANGED <<docker_available, cleaned, budget, persistent_container_id, containers,
                   localfs, uuids, created>>

\* lines 166-171: back in sandbox_initialize, containers.get(container_id)
init_get2(t) ==
    /\ th[t].pc = "init_get2"
    /\ \E fault \in BOOLEAN :
          IF fault \/ ~Exists(th[t].e)
          THEN Raise(t, IF fault THEN "EngineError" ELSE "NotFound")
          ELSE /\ th' = [th EXCEPT ![t].pc = "init_mkdir"]
               /\ UNCHANGED <<container_lock, phase, last, returned>>
    /\ UNCHANGED <<docker_available, cleaned, budget, persistent_container_id, containers,
                   fs, localfs, uuids, created>>

ThreadStep(t) ==
    \/ init_get(t)
    \/ init_mkdir(t)
    \/ ens_lock(t)
    \/ ens_cache(t)
    \/ ens_byname(t)
    \/ ens_start(t)
    \/ ens_pull(t)
    \/ ens_run(t)
    \/ ens_mkdir(t)
    \/ init_get2(t)

----------------------------------------------------------------------------
(* Bytes and archives *)

Hello == <<"h", "e", "l", "l", "o">>

\* str.encode('utf-8') of one character: "é" stands for a two-byte character
Utf8(c) ==
    CASE c = "h" -> <<104>>
      [] c = "e" -> <<101>>
      [] c = "l" -> <<108>>
      [] c = "o" -> <<111>>
      [] c = "é" -> <<195, 169>>

RECURSIVE Encode(_)
Encode(text) == IF Len(text) = 0 THEN <<>> ELSE Utf8(Head(text)) \o Encode(Tail(text))

\* bytes.decode('utf-8') succeeds: one- and two-byte sequences
RECURSIVE Utf8Valid(_)
Utf8Valid(b) ==
    IF Len(b) = 0 THEN TRUE
    ELSE IF b[1] < 128 THEN Utf8Valid(Tail(b))
    ELSE IF b[1] >= 194 /\ b[1] <= 223 /\ Len(b) >= 2 /\ b[2] >= 128 /\ b[2] <= 191
         THEN Utf8Valid(Tail(Tail(b)))
    ELSE FALSE

Call(c, path) == [call |-> c, path |-> path]

IsDir(f, loc) == loc \in f.dirs

FileAt(f, loc) == (CHOOSE x \in f.files : x[1] = loc)[2]

\* put_archive(dir, tar) of one entry: the entry lands under dir, replacing what
\* carries its name, a file or a directory with its tree (the engine unpacks
\* with noOverwriteDirNonDir off); the directories on the way to it are made
PutEntry(f, dirloc, name, bytes) ==
    LET loc == ResolveSegs(Segments(name), dirloc)
    IN  [dirs |-> {d \in f.dirs : ~IsPrefix(loc, d)}
                     \cup {SubSeq(loc, 1, n) : n \in 0..(Len(loc) - 1)},
         files |-> {x \in f.files : ~IsPrefix(loc, x[1])} \cup {<<loc, bytes>>}]

\* the local directory tree copy_project is given: one directory, one file in it
ProjDir == <<"proj">>

ProjFile == <<"a">>

ProjBytes == Encode(<<"o">>)

LocalExists(path) == path = ProjDir \/ \E x \in localfs : x[1] = path

LocalBytes(path) == (CHOOSE x \in localfs : x[1] = path)[2]

LocalWrite(path, bytes) == {x \in localfs : x[1] # path} \cup {<<path, bytes>>}

----------------------------------------------------------------------------
(* The public operations that run without suspending: one action each.       *)
(* fault = n makes the n-th engine call of the operation raise a generic     *)
(* engine error, fault = 0 none.                                             *)

NoBudget == [limited |-> FALSE, left |-> 0]

\* the event loop runs one request at a time
Serving ==
    /\ phase = "serve" /\ Quiet
    /\ budget.limited => budget.left > 0
    /\ budget' = IF budget.limited THEN [budget EXCEPT !.left = @ - 1] ELSE budget

\* what a container holds under the directory of workspace w
TreeOf(f, w) ==
    LET root == Location(WorkspacesRoot \o w)
    IN  [dirs |-> {d \in f.dirs : IsPrefix(root, d)},
         files |-> {x \in f.files : IsPrefix(root, x[1])}]

\* the cleaned workspaces that the operation on container c did not write into
Unwritten(c) ==
    {x \in cleaned : x[1] # c \/ TreeOf(fs[c], x[2]) = TreeOf(fs'[c], x[2])}

Req(op, cid, ws, name, arg, flag) ==
    [NoLast EXCEPT !.op = op, !.cid = cid, !.ws = ws, !.arg = arg, !.flag = flag,
                   !.data = name]

GetFails(cid, fault) == fault = 1 \/ ~Exists(cid)

GetKind(cid, fault) == IF fault = 1 THEN "EngineError" ELSE "NotFound"

\* lines 181-210: sandbox_initialize(image, use_persistent=False)
sandbox_initialize_standalone(fault) ==
    /\ Serving
    /\ LET r == Req("sandbox_initialize", 0, None, None, None, FALSE)
       IN  IF ~docker_available
           THEN /\ last' = Unavailable("sandbox_initialize", 0, None, None, FALSE)
                /\ UNCHANGED <<containers, fs>>
           ELSE IF fault = 1
           THEN /\ last' = Failed(r, <<Call("pull", <<>>)>>, "EngineError")
                /\ UNCHANGED <<containers, fs>>
           ELSE IF fault = 2 \/ FreshId = 0
           THEN /\ last' = Failed(r, <<Call("pull", <<>>), Call("run", <<>>)>>, "EngineError")
                /\ UNCHANGED <<containers, fs>>
           ELSE /\ containers' = [containers EXCEPT ![FreshId] =
                                     [state |-> "running", named |-> FALSE]]
                /\ fs' = [fs EXCEPT ![FreshId] = NewFs]
                /\ last' = [r EXCEPT !.ok = TRUE, !.ret_cid = FreshId,
                                     !.keys = {"success", "container_id", "mode"},
                                     !.calls = <<Call("pull", <<>>), Call("run", <<>>)>>]
    /\ UNCHANGED <<docker_available, returned, cleaned, persistent_container_id,
                   container_lock, localfs, phase, uuids, th, created>>

\* the test without its is_persistent operand
IsProtected_cached_only(container_id, is_persistent) ==
    container_id = persistent_container_id
\* the test of line 656, as the code writes it
IsProtected(container_id, is_persistent) ==
    is_persistent \/ container_id = persistent_container_id

\* a stop that leaves the stopped container in place
AfterStop_stopped_only == "exited"
\* lines 667-670: the container after container.stop(timeout=10) and
\* container.remove(v=True)
AfterStop == "removed"

\* lines 648-681
sandbox_stop(container_id, is_persistent, fault) ==
    /\ Serving
    /\ LET r == Req("sandbox_stop", container_id, None, None, None, is_persistent)
           c1 == <<Call("get", <<>>)>>
           c2 == Append(c1, Call("stop", <<>>))
           c3 == Append(c2, Call("remove", <<>>))
       IN  IF ~docker_available
           THEN /\ last' = Unavailable("sandbox_stop", container_id, None, None, is_persistent)
                /\ UNCHANGED containers
           ELSE IF IsProtected(container_id, is_persistent)
           THEN /\ last' = [r EXCEPT !.ok = TRUE, !.keys = {"success", "message"}]
                /\ UNCHANGED containers
           ELSE IF GetFails(container_id, fault)
           THEN /\ last' = Failed(r, c1, GetKind(container_id, fault))
                /\ UNCHANGED containers
           ELSE IF fault = 2
           THEN /\ last' = Failed(r, c2, "EngineError")
                /\ UNCHANGED containers
           ELSE IF fault = 3
           THEN /\ last' = Failed(r, c3, "EngineError")
                /\ containers' = [containers EXCEPT ![container_id].state = "exited"]
           ELSE /\ last' = [r EXCEPT !.ok = TRUE, !.keys = {"success", "message"},
                                     !.calls = c3]
                /\ containers' = [containers EXCEPT ![container_id].state = AfterStop]
    /\ UNCHANGED <<docker_available, returned, cleaned, persistent_container_id,
                   container_lock, fs, localfs, phase, uuids, th, created>>

\* lines 695-719
clean_workspace(container_id, workspace_id, fault) ==
    /\ Serving
    /\ LET r == Req("clean_workspace", container_id, workspace_id, None, None, FALSE)
           path == WorkspacesRoot \o workspace_id
           c1 == <<Call("get", <<>>)>>
           c2 == Append(c1, Call("rm", path))
       IN  IF ~docker_available
           THEN /\ last' = Unavailable("clean_workspace", container_id, workspace_id, None, FALSE)
                /\ UNCHANGED fs
           ELSE IF GetFails(container_id, fault)
           THEN /\ last' = Failed(r, c1, GetKind(container_id, fault))
                /\ UNCHANGED fs
           ELSE IF fault = 2 \/ ~Running(container_id)
           THEN /\ last' = Failed(r, c2, "EngineError")
                /\ UNCHANGED fs
           ELSE /\ last' = [r EXCEPT !.ok = TRUE, !.keys = {"success", "message"},
                                     !.calls = c2, !.path = path]
                /\ fs' = [fs EXCEPT ![container_id] = RmRf(@, path)]
    /\ cleaned' = IF last'.ok THEN Unwritten(container_id) \cup {<<container_id, workspace_id>>}
                  ELSE cleaned
    /\ UNCHANGED <<docker_available, returned, persistent_container_id, container_lock, containers,
                   localfs, phase, uuids, th, created>>

\* lines 733-754
get_container_logs(container_id, fault) ==
    /\ Serving
    /\ LET r == Req("get_container_logs", container_id, None, None, None, FALSE)
           c1 == <<Call("get", <<>>)>>
           c2 == Append(c1, Call("logs", <<>>))
       IN  last' = IF ~docker_available
                   THEN Unavailable("get_container_logs", container_id, None, None, FALSE)
                   ELSE IF GetFails(container_id, fault)
                   THEN Failed(r, c1, GetKind(container_id, fault))
                   ELSE IF fault = 2 THEN Failed(r, c2, "EngineError")
                   \* line 743: container.logs().decode('utf-8') on bytes that are not UTF-8
                   ELSE IF fault = 3 THEN Failed(r, c2, "UnicodeDecodeError")
                   ELSE [r EXCEPT !.ok = TRUE, !.keys = {"success", "logs"}, !.calls = c2]
    /\ UNCHANGED <<docker_available, returned, cleaned, persistent_container_id,
                   container_lock, containers, fs, localfs, phase, uuids, th, created>>

\* lines 333-395
write_file_sandbox(container_id, file_name, file_contents, workspace_id, dest_dir, fault) ==
    /\ Serving
    /\ LET r == Req("write_file_sandbox", container_id, workspace_id, file_name, dest_dir, FALSE)
           target_dir == TargetDir(workspace_id, dest_dir)
           put_dir == WriteFilePutDir(workspace_id, dest_dir)
           c1 == <<Call("get", <<>>)>>
           c2 == Append(c1, Call("mkdir", target_dir))
           c3 == Append(c2, Call("put_archive", put_dir))
           f1 == MkdirP(fs[container_id], target_dir)
       IN  IF ~docker_available
           THEN /\ last' = Unavailable("write_file_sandbox", container_id, workspace_id,
                                       dest_dir, FALSE)
                /\ UNCHANGED fs
           ELSE IF GetFails(container_id, fault)
           THEN /\ last' = Failed(r, c1, GetKind(container_id, fault))
                /\ UNCHANGED fs
           ELSE IF fault = 2 \/ ~Running(container_id)
           THEN /\ last' = Failed(r, c2, "EngineError")
                /\ UNCHANGED fs
           ELSE IF fault = 3 \/ ~IsDir(f1, Location(put_dir))
           THEN /\ last' = Failed(r, c3, IF fault = 3 THEN "EngineError" ELSE "NotFound")
                /\ fs' = [fs EXCEPT ![container_id] = f1]
           ELSE /\ last' = [r EXCEPT !.ok = TRUE, !.keys = {"success", "file_path"},
                                     !.calls = c3,
                                     !.path = put_dir \o <<"/">> \o file_name]
                /\ fs' = [fs EXCEPT ![container_id] =
                             PutEntry(f1, Location(put_dir), file_name, Encode(file_contents))]
    /\ cleaned' = Unwritten(container_id)
    /\ UNCHANGED <<docker_available, returned, persistent_container_id, container_lock, containers,
                   localfs, phase, uuids, th, created>>

\* lines 412-474
copy_file(container_id, local_src_file, workspace_id, dest_path, fault) ==
    /\ Serving
    /\ LET r == Req("copy_file", container_id, workspace_id, local_src_file, dest_path, FALSE)
           full_dest_path == FullDestPath(workspace_id, local_src_file, dest_path)
           dest_dir == path_dirname(full_dest_path)
           put_dir == CopyFilePutDir(full_dest_path)
           c1 == <<Call("get", <<>>)>>
           c2 == IF dest_dir # <<>> THEN Append(c1, Call("mkdir", dest_dir)) ELSE c1
           c3 == Append(c2, Call("put_archive", put_dir))
           f1 == IF dest_dir # <<>> THEN MkdirP(fs[container_id], dest_dir)
                 ELSE fs[container_id]
       IN  IF ~docker_available
           THEN /\ last' = Unavailable("copy_file", container_id, workspace_id, dest_path, FALSE)
                /\ UNCHANGED fs
           ELSE IF GetFails(container_id, fault)
           THEN /\ last' = Failed(r, c1, GetKind(container_id, fault))
                /\ UNCHANGED fs
           ELSE IF ~LocalExists(local_src_file)
           THEN /\ last' = [r EXCEPT !.err = <<"local_missing">>,
                                     !.keys = {"success", "error"}, !.calls = c1]
                /\ UNCHANGED fs
           ELSE IF dest_dir # <<>> /\ (fault = 2 \/ ~Running(container_id))
           THEN /\ last' = Failed(r, c2, "EngineError")
                /\ UNCHANGED fs
           ELSE IF fault = 3 \/ ~IsDir(f1, Location(put_dir))
                   \/ path_basename(full_dest_path) = <<>>
           THEN /\ last' = Failed(r, c3, IF IsDir(f1, Location(put_dir)) THEN "EngineError"
                                         ELSE "NotFound")
                /\ fs' = [fs EXCEPT ![container_id] = f1]
           ELSE /\ last' = [r EXCEPT !.ok = TRUE, !.keys = {"success", "file_path"},
                                     !.calls = c3, !.path = full_dest_path]
                /\ fs' = [fs EXCEPT ![container_id] =
                             IF local_src_file = ProjDir
                             THEN PutEntry(f1, Location(put_dir),
                                           path_join(path_basename(full_dest_path), ProjFile),
                                           ProjBytes)
                             ELSE PutEntry(f1, Location(put_dir),
                                           path_basename(full_dest_path),
                                           LocalBytes(local_src_file))]
    /\ cleaned' = Unwritten(container_id)
    /\ UNCHANGED <<docker_available, returned, persistent_container_id, container_lock, containers,
                   localfs, phase, uuids, th, created>>

\* lines 491-561
copy_project(container_id, local_src_dir, workspace_id, dest_dir, fault) ==
    /\ Serving
    /\ LET r == Req("copy_project", container_id, workspace_id, local_src_dir, dest_dir, FALSE)
           target_dir == TargetDir(workspace_id, dest_dir)
           c1 == <<Call("get", <<>>)>>
           c2 == Append(c1, Call("mkdir", target_dir))
           c3 == Append(c2, Call("put_archive", target_dir))
           f1 == MkdirP(fs[container_id], target_dir)
           \* arc_path = join(join(src_dir_name, "."), file)
           arc_path == path_join(path_join(path_basename(local_src_dir), <<".">>), ProjFile)
       IN  IF ~docker_available
           THEN /\ last' = Unavailable("copy_project", container_id, workspace_id,
                                       dest_dir, FALSE)
                /\ UNCHANGED fs
           ELSE IF GetFails(container_id, fault)
           THEN /\ last' = Failed(r, c1, GetKind(container_id, fault))
                /\ UNCHANGED fs
           ELSE IF local_src_dir # ProjDir
           THEN /\ last' = [r EXCEPT !.err = <<"local_missing">>,
                                     !.keys = {"success", "error"}, !.calls = c1]
                /\ UNCHANGED fs
           ELSE IF fault = 2 \/ ~Running(container_id)
           THEN /\ last' = Failed(r, c2, "EngineError")
                /\ UNCHANGED fs
           ELSE IF fault = 3 \/ ~IsDir(f1, Location(target_dir))
           THEN /\ last' = Failed(r, c3, IF fault = 3 THEN "EngineError" ELSE "NotFound")
                /\ fs' = [fs EXCEPT ![container_id] = f1]
           ELSE /\ last' = [r EXCEPT !.ok = TRUE, !.keys = {"success", "dest_dir"},
                                     !.calls = c3, !.path = target_dir]
                /\ fs' = [fs EXCEPT ![container_id] =
                             PutEntry(f1, Location(target_dir), arc_path, ProjBytes)]
    /\ cleaned' = Unwritten(container_id)
    /\ UNCHANGED <<docker_available, returned, persistent_container_id, container_lock, containers,
                   localfs, phase, uuids, th, created>>

\* lines 591-592: the path handed to get_archive
SourcePath(workspace_id, container_src_path) ==
    IF workspace_id # None /\ ~startswith_slash(container_src_path)
    THEN WorkspacesRoot \o workspace_id \o <<"/">> \o container_src_path
    ELSE container_src_path

\* lines 578-633
copy_file_from_sandbox(container_id, container_src_path, workspace_id, local_dest_path, fault) ==
    /\ Serving
    /\ LET r == Req("copy_file_from_sandbox", container_id, workspace_id, container_src_path,
                    local_dest_path, FALSE)
           src == SourcePath(workspace_id, container_src_path)
           dest == IF local_dest_path = None THEN path_basename(src) ELSE local_dest_path
           c1 == <<Call("get", <<>>)>>
           c2 == Append(c1, Call("get_archive", src))
           f == fs[container_id]
       IN  IF ~docker_available
           THEN /\ last' = Unavailable("copy_file_from_sandbox", container_id, workspace_id,
                                       local_dest_path, FALSE)
                /\ UNCHANGED localfs
           ELSE IF GetFails(container_id, fault)
           THEN /\ last' = Failed(r, c1, GetKind(container_id, fault))
                /\ UNCHANGED localfs
           ELSE IF fault = 2 \/ ~(IsFile(f, Location(src)) \/ IsDir(f, Location(src)))
           THEN /\ last' = Failed(r, c2, IF fault = 2 THEN "EngineError" ELSE "NotFound")
                /\ UNCHANGED localfs
           ELSE IF dest = <<>> \/ dest = ProjDir
           THEN \* open(local_dest_path, 'wb') raises
                /\ last' = Failed(r, c2, "OSError")
                /\ UNCHANGED localfs
           ELSE IF IsDir(f, Location(src))
           THEN \* the first member is the directory: extractfile gives None,
                \* after open() has made the local file
                /\ last' = Failed(r, c2, "AttributeError")
                /\ localfs' = LocalWrite(dest, <<>>)
           ELSE /\ last' = [r EXCEPT !.ok = TRUE,
                                     !.keys = {"success", "local_path", "file_size"},
                                     !.calls = c2, !.path = dest,
                                     !.size = Len(FileAt(f, Location(src)))]
                /\ localfs' = LocalWrite(dest, FileAt(f, Location(src)))
    /\ UNCHANGED <<docker_available, returned, cleaned, persistent_container_id,
                   container_lock, containers, fs, phase, uuids, th, created>>

----------------------------------------------------------------------------
(* sandbox_exec *)

\* The commands of the model and what they do in a container: "true" and
\* "python s" exit 0, "false" exits 1, "cat bin" exits 0 and prints a byte that
\* is not UTF-8.
CmdTrue == <<"true">>

CmdFalse == <<"false">>

CmdPython == <<"python", " ", "s">>

CmdBinary == <<"cat", " ", "bin">>

CmdExit(cmd) == IF cmd = CmdFalse THEN 1 ELSE 0

CmdStdout(cmd) ==
    CASE cmd = CmdBinary -> <<255>>
      [] cmd = CmdPython -> Encode(<<"h">>)
      [] OTHER -> <<>>

\* working_dir, lines 242-243
WorkingDir(workspace_id) == BaseDir(workspace_id)

\* cmd_to_run, lines 264-267
CmdToRun(cmd, workspace_id) ==
    IF workspace_id # None
    THEN <<"cd", " ">> \o WorkingDir(workspace_id) \o <<" ", "&&", " ">> \o cmd
    ELSE cmd

\* line 272: cmd_to_run.startswith("python")
NeedsPackages(cmd, workspace_id) ==
    Len(CmdToRun(cmd, workspace_id)) > 0 /\ CmdToRun(cmd, workspace_id)[1] = "python"

\* the exit status of sh -c cmd_to_run: "cd dir &&" fails when dir is missing
ShExit(f, cmd, workspace_id) ==
    IF workspace_id # None /\ ~IsDir(f, Location(WorkingDir(workspace_id))) THEN 2
    ELSE CmdExit(cmd)

ShStdout(f, cmd, workspace_id) ==
    IF workspace_id # None /\ ~IsDir(f, Location(WorkingDir(workspace_id))) THEN <<>>
    ELSE CmdStdout(cmd)

\* lines 246-260: the calls of the pip bootstrap; boot_fault = n makes the n-th raise
Bootstrap(up, has_pip, boot_fault) ==
    LET which == <<Call("which_pip", <<>>)>>
        update == Append(which, Call("apt_update", <<>>))
    IN  IF ~up \/ boot_fault = 1 \/ has_pip THEN which
        ELSE IF boot_fault = 2 THEN update
        ELSE Append(update, Call("apt_install", <<>>))

\* whether one of the calls of the pip bootstrap raised
BootstrapFails(up, has_pip, boot_fault) ==
    ~up \/ boot_fault = 1 \/ (~has_pip /\ boot_fault \in {2, 3})

\* lines 273-278: the calls of the dependency install before a python command
DepInstall(up, dep_fault) ==
    IF ~up \/ dep_fault = 1 THEN <<Call("pip_upgrade", <<>>)>>
    ELSE <<Call("pip_upgrade", <<>>), Call("pip_requirements", <<>>)>>

DepInstallFails(up, dep_fault) == ~up \/ dep_fault \in {1, 2}

\* an inner try that lets the exception through
Propagates_reraise(raised) == raised
\* lines 259-260 and 277-278: "except Exception" logs a warning and goes on, so
\* nothing raised by a bootstrap or install step leaves its try
Propagates(raised) == FALSE

\* line 298-304: whether the loop goes on after a command of this exit status
HaltsAfter_never(exit_code) == FALSE
HaltsAfter(exit_code) == exit_code # 0

\* lines 263-304: the loop from command i on.  cmd_fault = n makes the exec_run of
\* the n-th command raise.  The result: what was appended, what was sent to the
\* engine, and the exception that ended the loop ("" when it ended by itself).
RECURSIVE RunBatch(_, _, _, _, _, _, _, _, _)
RunBatch(commands, i, f, up, workspace_id, cmd_fault, dep_fault, acc, calls) ==
    IF i > Len(commands) THEN [acc EXCEPT !.calls = calls]
    ELSE LET cmd == commands[i]
             install == NeedsPackages(cmd, workspace_id)
             c1 == IF install THEN calls \o DepInstall(up, dep_fault) ELSE calls
             install_raised == install /\ DepInstallFails(up, dep_fault)
             warned == IF install_raised THEN acc.warned + 1 ELSE acc.warned
             c2 == Append(c1, Call("exec", CmdToRun(cmd, workspace_id)))
             exit_code == ShExit(f, cmd, workspace_id)
             stdout == ShStdout(f, cmd, workspace_id)
             ran == Append(acc.ran, cmd)
             results == Append(acc.results,
                               [command |-> cmd, exit_code |-> exit_code,
                                stdout |-> stdout, success |-> exit_code = 0])
         IN  IF Propagates(install_raised)
             THEN [acc EXCEPT !.calls = c1, !.warned = warned, !.exc = "EngineError"]
             ELSE IF ~up \/ cmd_fault = i
             THEN [acc EXCEPT !.calls = c2, !.warned = warned, !.exc = "EngineError"]
             ELSE IF ~Utf8Valid(stdout)
             THEN [acc EXCEPT !.ran = ran, !.calls = c2, !.warned = warned,
                              !.exc = "UnicodeDecodeError"]
             ELSE IF HaltsAfter(exit_code)
             THEN [acc EXCEPT !.results = results, !.ran = ran, !.calls = c2,
                              !.warned = warned]
             ELSE RunBatch(commands, i + 1, f, up, workspace_id, cmd_fault, dep_fault,
                           [acc EXCEPT !.results = results, !.ran = ran,
                                       !.warned = warned], c2)

\* lines 231-315
sandbox_exec(container_id, commands, workspace_id, has_pip, get_fault, boot_fault, dep_fault, cmd_fault) ==
    /\ Serving
    /\ LET r == [Req("sandbox_exec", container_id, workspace_id, None, None, FALSE)
                    EXCEPT !.commands = commands]
           c1 == <<Call("get", <<>>)>>
           up == Running(container_id)
           c2 == c1 \o Bootstrap(up, has_pip, boot_fault)
           boot_raised == BootstrapFails(up, has_pip, boot_fault)
           b == RunBatch(commands, 1, fs[container_id], up, workspace_id, cmd_fault,
                         dep_fault,
                         [results |-> <<>>, ran |-> <<>>, calls |-> c2, exc |-> "",
                          warned |-> IF boot_raised THEN 1 ELSE 0], c2)
       IN  last' = IF ~docker_available
                   THEN [Unavailable("sandbox_exec", container_id, workspace_id, None, FALSE)
                            EXCEPT !.commands = commands]
                   ELSE IF GetFails(container_id, IF get_fault THEN 1 ELSE 0)
                   THEN Failed(r, c1, GetKind(container_id, IF get_fault THEN 1 ELSE 0))
                   ELSE IF Propagates(boot_raised)
                   THEN [Failed(r, c2, "EngineError") EXCEPT !.warned = 1]
                   ELSE IF b.exc # ""
                   THEN [Failed(r, b.calls, b.exc) EXCEPT !.ran = b.ran,
                                                          !.warned = b.warned]
                   ELSE [r EXCEPT !.ok = TRUE, !.keys = {"success", "results"},
                                  !.calls = b.calls, !.results = b.results, !.ran = b.ran,
                                  !.warned = b.warned]
    /\ UNCHANGED <<docker_available, returned, cleaned, persistent_container_id,
                   container_lock, containers, fs, localfs, phase, uuids, th, created>>

----------------------------------------------------------------------------
(* The server: the start of the process, then requests served one at a time  *)
(* on the event loop                                                         *)

LocalFile == <<"l">>

LocalMissing == <<"m">>

\* a container of the well-known name left by an earlier run of the server
Leftover(state) == [state |-> state, named |-> TRUE]

\* the flag left true although from_env() or ping() raised
DockerCheck_assumed(reachable) == TRUE
\* lines 49-57: docker_available is set when from_env() and ping() both return
DockerCheck(reachable) == reachable

\* lines 38-57 and the engine as the process finds it
Init ==
    /\ \E reachable \in BOOLEAN : docker_available = DockerCheck(reachable)
    /\ persistent_container_id = 0
    /\ container_lock = 0
    /\ \E pre \in {"none", "running", "exited"} :
          /\ docker_available \/ pre = "none"
          /\ containers = [i \in Ids |-> IF i = 1 /\ pre # "none" THEN Leftover(pre)
                                         ELSE NoContainer]
          /\ fs = [i \in Ids |-> IF i = 1 /\ pre # "none" THEN MkdirP(NewFs, WorkspacesRoot)
                                 ELSE NewFs]
    /\ localfs = {<<LocalFile, Encode(<<"h", "é">>)>>}
    /\ phase = "boot"
    /\ uuids = 0
    /\ th = [t \in Threads |-> IdleThread]
    /\ created = {}
    /\ returned = {}
    /\ cleaned = {}
    /\ budget = NoBudget
    /\ last = NoLast

WsArgs == {None} \cup {WsToken(n) : n \in 1..MaxWorkspaces}

Faults == 0..3

\* requests served one at a time: initialize, stop and logs on the containers
Next ==
    \/ start_persistent_container
    \/ Quiet /\ sandbox_initialize_call(1)
    \/ ThreadStep(1)
    \/ \E fault \in Faults : sandbox_initialize_standalone(fault)
    \/ \E c \in Ids, p \in BOOLEAN, fault \in Faults : sandbox_stop(c, p, fault)
    \/ \E c \in Ids, fault \in Faults : get_container_logs(c, fault)

Spec == Init /\ [][Next]_vars

----------------------------------------------------------------------------
(* Properties of the stop operation, under Spec *)

\* the container that carries the well-known name, however its id was learnt
IsPersistentContainer(c) == Exists(c) /\ containers[c].named

\* a step of Spec that is a completed sandbox_stop call
StopStep == th' = th /\ phase' = phase /\ last'.op = "sandbox_stop"

\* C3: a stop request whose container_id is the identity of the persistent
\* container, whatever is_persistent says and however the identity was obtained,
\* and that is running, leaves that container present and running.
C3_StopNeverTouchesPersistent ==
    [][(StopStep /\ IsPersistentContainer(last'.cid) /\ Running(last'.cid))
          => containers'[last'.cid] = containers[last'.cid]]_vars

\* C4: sandbox_stop(persistent_container_id, is_persistent=True) returns success
\* without any engine call, and the containers are as they were.
C4_StopPersistentIsNoOp ==
    [][(StopStep /\ last'.flag /\ docker_available
           /\ (last'.cid = persistent_container_id \/ IsPersistentContainer(last'.cid)))
          => (last'.ok /\ last'.calls = <<>> /\ last'.keys = {"success", "message"}
              /\ containers' = containers)]_vars

C4_Witness ==
    /\ last.op = "sandbox_stop" /\ last.flag /\ last.ok
    /\ last.cid = persistent_container_id
    /\ Running(last.cid)

\* a step of Spec in which sandbox_initialize(use_persistent=True) returns success
InitReturns ==
    /\ \E t \in Threads : th[t].op = "init" /\ th'[t].pc = "idle"
    /\ last'.op = "sandbox_initialize" /\ last'.flag /\ last'.ok

\* C13: when a persistent-mode sandbox_initialize returns success, the
\* container it hands back is running and its id is the cached
\* persistent_container_id, also when the container was found by its name.
C13_InitHandsBackReadyCached ==
    [][InitReturns =>
          /\ containers'[last'.ret_cid].state = "running"
          /\ persistent_container_id' = last'.ret_cid]_vars

\* a caller is inside sandbox_initialize, waiting for the answer of an engine call
InEngineRoundTrip ==
    /\ phase = "serve"
    /\ \E t \in Threads : th[t].pc \notin {"idle", "ens_lock"}

\* another caller's command batch or file upload is served now
OtherCallerServed ==
    \/ \E c \in Ids : sandbox_exec(c, <<CmdTrue>>, None, TRUE, FALSE, 0, 0, 0)
    \/ \E c \in Ids : write_file_sandbox(c, <<"a">>, Hello, None, None, 0)

\* C20: while one operation waits on an engine call, another caller's execute
\* or transfer operation can start and complete.
C20_RoundTripDoesNotBlockOthers ==
    InEngineRoundTrip => ENABLED OtherCallerServed

----------------------------------------------------------------------------
(* Callers that acquire the persistent container at the same time *)

NextConc ==
    \/ start_persistent_container
    \/ \E t \in Threads : ensure_call(t)
    \/ \E t \in Threads : sandbox_initialize_call(t)
    \/ \E t \in Threads : ThreadStep(t)

SpecConc == Init /\ [][NextConc]_vars

\* C1: however many calls acquire the persistent container at once, at most
\* one container is created for it and every call that returns hands back the
\* same identity.
C1_OnePersistentContainer ==
    /\ Cardinality(created) <= 1
    /\ Cardinality(returned) <= 1

\* two overlapping calls have both returned the container one of them created
C1_Witness ==
    \E t1, t2 \in Threads :
        /\ t1 # t2
        /\ th[t1].pc = "idle" /\ th[t2].pc = "idle"
        /\ th[t2].conc
        /\ th[t1].ret # 0 /\ th[t1].ret = th[t2].ret
        /\ created = {th[t1].ret}

----------------------------------------------------------------------------
(* Destination paths: the transfer operations on every short path string *)

\* the server after its start and one sandbox_initialize: the persistent container
\* runs, is cached, and holds the workspace w1
Settled(b) ==
    /\ docker_available = TRUE
    /\ persistent_container_id = 1
    /\ container_lock = 0
    /\ localfs = {<<LocalFile, Encode(<<"h", "é">>)>>}
    /\ phase = "serve"
    /\ th = [t \in Threads |-> IdleThread]
    /\ created = {1}
    /\ returned = {1}
    /\ cleaned = {}
    /\ budget = b
    /\ last = NoLast

InitPath ==
    /\ Settled([limited |-> TRUE, left |-> MaxPathOps])
    /\ uuids = 1
    /\ containers = [i \in Ids |-> IF i = 1 THEN PersistentProfile ELSE NoContainer]
    /\ fs = [i \in Ids |-> IF i = 1
                           THEN MkdirP(NewFs, WorkspacesRoot \o WsToken(1))
                           ELSE NewFs]

DestPaths == StringsUpTo(MaxPathLen) \cup {None}

NextPath ==
    \/ \E w \in {None, WsToken(1)}, p \in DestPaths :
          write_file_sandbox(1, <<"a">>, Hello, w, p, 0)
    \/ \E w \in {None, WsToken(1)}, p \in DestPaths :
          copy_file(1, LocalFile, w, p, 0)
    \/ \E w \in {None, WsToken(1)}, p \in DestPaths :
          copy_project(1, ProjDir, w, p, 0)

SpecPath == InitPath /\ [][NextPath]_vars

IsUpload == last.op \in {"write_file_sandbox", "copy_file", "copy_project"}

\* every path the upload handed to the engine, and the path it reports, lies in
\* the root of the workspace it was given, or in /app when it was given none
StaysInRoot ==
    /\ \A i \in 1..Len(last.calls) :
          last.calls[i].call \in {"mkdir", "put_archive"}
             => Inside(last.calls[i].path, BaseDir(last.ws))
    /\ last.ok => Inside(last.path, BaseDir(last.ws))

\* C5 as claimed: for every caller-supplied destination path the resolved path
\* lies inside the intended root.
C5_Claimed == IsUpload => StaysInRoot

\* C5 as amended: for every caller-supplied destination path that holds no ".."
\* segment, leading separators or not, the resolved path lies inside the
\* intended root.
C5_NoDotDotStaysInRoot ==
    (IsUpload /\ (last.arg = None \/ ~HasDotDot(last.arg))) => StaysInRoot

\* an upload to a path that starts with a separator succeeded inside the root
C5_Witness ==
    /\ IsUpload /\ last.ok
    /\ last.arg = <<"/", "/", "a">>
    /\ last.ws # None
    /\ StaysInRoot

\* the positions of the put_archive calls among the engine calls of the upload
PutCalls == {j \in 1..Len(last.calls) : last.calls[j].call = "put_archive"}

\* C18: in write_file_sandbox, copy_file and copy_project every put_archive call
\* comes right after a "mkdir -p" of the directory the archive is put into.
C18_MkdirBeforePutArchive ==
    IsUpload =>
        \A j \in PutCalls :
            /\ j > 1
            /\ last.calls[j - 1].call = "mkdir"
            /\ Location(last.calls[j - 1].path) = Location(last.calls[j].path)

\* copy_file into a directory two levels down that did not exist
C18_Witness ==
    /\ last.op = "copy_file" /\ last.ok
    /\ last.arg = <<"a", "/", "a">>
    /\ last.ws = WsToken(1)
    /\ PutCalls # {}

----------------------------------------------------------------------------
(* Command batches *)

\* sandbox_exec changes nothing the server or the engine model keeps, so one
\* request from each starting state reaches every result it can give
OneRequest == [limited |-> TRUE, left |-> 1]

\* the persistent container with workspace w1 (w2 was cleaned), and a standalone
\* container that runs, has exited or was removed
InitExec ==
    /\ Settled(OneRequest)
    /\ uuids = 2
    /\ \E st \in {"running", "exited", "removed"} :
          containers = [i \in Ids |-> IF i = 1 THEN PersistentProfile
                                      ELSE [state |-> st, named |-> FALSE]]
    /\ fs = [i \in Ids |-> IF i = 1
                           THEN MkdirP(NewFs, WorkspacesRoot \o WsToken(1))
                           ELSE NewFs]

Cmds == {CmdTrue, CmdFalse, CmdPython, CmdBinary}

RECURSIVE BatchesUpTo(_)
BatchesUpTo(n) ==
    IF n = 0 THEN {<<>>}
    ELSE LET S == BatchesUpTo(n - 1)
         IN  S \cup {Append(b, c) : b \in {x \in S : Len(x) = n - 1}, c \in Cmds}

NextExec ==
    /\ budget.left > 0
    /\ \E c \in Ids, cmds \in BatchesUpTo(MaxBatch), w \in WsArgs, has_pip \in BOOLEAN,
          get_fault \in BOOLEAN, boot_fault \in 0..3, dep_fault \in 0..2,
          cmd_fault \in 0..MaxBatch :
             sandbox_exec(c, cmds, w, has_pip, get_fault, boot_fault, dep_fault, cmd_fault)

SpecExec == InitExec /\ [][NextExec]_vars

\* C2: when sandbox_exec returns a batch, its entries are the first requested
\* commands in order, every entry but the last has exit status 0, a batch
\* shorter than the request ends in a non-zero exit status, and no command
\* after the first failing one was executed.
C2_BatchIsHaltedPrefix ==
    (last.op = "sandbox_exec" /\ last.ok) =>
        LET n == Len(last.results)
        IN  /\ n <= Len(last.commands)
            /\ \A i \in 1..n : last.results[i].command = last.commands[i]
            /\ \A i \in 1..n : i < n => last.results[i].exit_code = 0
            /\ n < Len(last.commands) => last.results[n].exit_code # 0
            /\ last.ran = SubSeq(last.commands, 1, n)

\* ["true", "false", "true"]: two entries, the second failed, the third never ran
C2_Witness ==
    /\ last.op = "sandbox_exec" /\ last.ok
    /\ last.commands = <<CmdTrue, CmdFalse, CmdTrue>>
    /\ Len(last.results) = 2
    /\ last.results[2].exit_code # 0
    /\ last.ran = <<CmdTrue, CmdFalse>>

\* the failures of sandbox_exec that are infrastructure errors: the engine is
\* unavailable, the container is not found, an engine call failed
InfrastructureError ==
    last.err \in {<<"unavailable">>, <<"failed", "NotFound">>, <<"failed", "EngineError">>}

\* C10: sandbox_exec reports success with a batch whenever the batch ran,
\* whatever the exit statuses, and reports failure, with an error and no
\* results, exactly when an infrastructure error occurred.
C10_FailsOnlyOnInfrastructure ==
    last.op = "sandbox_exec" =>
        /\ last.ok => (last.keys = {"success", "results"} /\ last.err = <<>>)
        /\ ~last.ok => (last.keys = {"success", "error"} /\ InfrastructureError)

\* C11: the results sandbox_exec returns hold one entry for exactly each command
\* that was executed in the container, also when an engine call failed after
\* some commands had run.
C11_ResultsCoverExecuted ==
    last.op = "sandbox_exec" =>
        /\ Len(last.results) = Len(last.ran)
        /\ \A i \in 1..Len(last.ran) : last.results[i].command = last.ran[i]

\* C16: when a call of the pip bootstrap or of a dependency install raised, the
\* batch goes on: the results hold entries of requested commands only, a batch
\* that is returned stopped only at a failing command or at the end of the
\* list, and a call that failed did so in the exec of a command.
C16_BestEffortSteps ==
    (last.op = "sandbox_exec" /\ last.warned > 0) =>
        LET n == Len(last.results)
        IN  /\ n <= Len(last.commands)
            /\ \A i \in 1..n : last.results[i].command = last.commands[i]
            /\ last.ok => /\ last.ran = SubSeq(last.commands, 1, n)
                          /\ n = Len(last.commands) \/ last.results[n].exit_code # 0
            /\ ~last.ok => last.calls[Len(last.calls)].call = "exec"

\* the bootstrap and the install before "python s" both raised, and both
\* commands of the list ran
C16_Witness ==
    /\ last.op = "sandbox_exec" /\ last.ok
    /\ last.warned = 2
    /\ last.commands = <<CmdPython, CmdTrue>>
    /\ Len(last.results) = 2

\* the positions of the exec_run calls of the commands among the engine calls
ExecCalls(calls) == {j \in 1..Len(calls) : calls[j].call = "exec"}

\* the command whose exec_run is the engine call at position j
CommandOf(l, j) == l.commands[Cardinality({k \in ExecCalls(l.calls) : k <= j})]

IsInterpreter(cmd) == Len(cmd) > 0 /\ cmd[1] = "python"

\* C17: the exec of every command whose text starts with "python" comes right
\* after the calls of the dependency install, with or without a workspace_id.
C17_InstallBeforeInterpreter ==
    last.op = "sandbox_exec" =>
        \A j \in ExecCalls(last.calls) :
            IsInterpreter(CommandOf(last, j)) =>
                j > 1 /\ last.calls[j - 1].call \in {"pip_upgrade", "pip_requirements"}

----------------------------------------------------------------------------
(* File transfers in both directions, and workspace cleaning *)

\* the persistent container with the workspaces w1, which holds a file "a", and
\* w2; a standalone container runs beside it or not
InitFiles ==
    /\ Settled([limited |-> TRUE, left |-> MaxOps])
    /\ uuids = 2
    /\ \E other \in {NoContainer, [state |-> "running", named |-> FALSE]} :
          containers = [i \in Ids |-> IF i = 1 THEN PersistentProfile ELSE other]
    /\ fs = [i \in Ids |->
                IF i = 1
                THEN PutEntry(MkdirP(MkdirP(NewFs, WorkspacesRoot \o WsToken(1)),
                                     WorkspacesRoot \o WsToken(2)),
                              Location(WorkspacesRoot \o WsToken(1)), <<"a">>, ProjBytes)
                ELSE NewFs]

NextFiles ==
    \/ \E c \in Ids, w \in WsArgs :
          write_file_sandbox(c, <<"a">>, Hello, w, None, 0)
    \/ \E c \in Ids, src \in {LocalFile, LocalMissing}, w \in WsArgs :
          copy_file(c, src, w, None, 0)
    \/ \E c \in Ids, src \in {ProjDir, LocalMissing}, w \in WsArgs :
          copy_project(c, src, w, None, 0)
    \/ \E c \in Ids, w \in WsArgs :
          copy_file_from_sandbox(c, <<"a">>, w, None, 0)
    \/ \E c \in Ids, w \in WsArgs \ {None}, fault \in {0, 2} :
          clean_workspace(c, w, fault)

SpecFiles == InitFiles /\ [][NextFiles]_vars

\* C6: copy_file of a local path that does not exist fails with the
\* local-not-found error and makes no engine call, whatever the container_id.
C6_MissingLocalMakesNoEngineCall ==
    (last.op = "copy_file" /\ last.data = LocalMissing) =>
        /\ ~last.ok
        /\ last.err = <<"local_missing">>
        /\ last.calls = <<>>

\* a step that serves copy_file_from_sandbox right after a successful
\* write_file_sandbox of the same name in the same container and workspace
ReadsBackWrite ==
    /\ last.op = "write_file_sandbox" /\ last.ok
    /\ budget' # budget
    /\ last'.op = "copy_file_from_sandbox"
    /\ last'.cid = last.cid /\ last'.ws = last.ws /\ last'.data = last.data

\* C7: write_file_sandbox followed by copy_file_from_sandbox of the same name,
\* with the same container and the same workspace argument (a token or none),
\* reads back the written content and reports its size in bytes: "hello", 5.
C7_WriteThenReadRoundTrip ==
    [][ReadsBackWrite =>
          /\ last'.ok
          /\ last'.size = 5
          /\ <<last'.path, Encode(Hello)>> \in localfs']_vars

----------------------------------------------------------------------------
(* A server that found the engine unreachable when it started *)

\* the engine did not answer the ping of line 51; it may have come back since,
\* with the container an earlier run left
InitDown ==
    /\ docker_available = DockerCheck(FALSE)
    /\ persistent_container_id = 0
    /\ container_lock = 0
    /\ \E pre \in {"none", "running", "exited"} :
          /\ containers = [i \in Ids |-> IF i = 1 /\ pre # "none" THEN Leftover(pre)
                                         ELSE NoContainer]
          /\ fs = [i \in Ids |-> IF i = 1 /\ pre # "none"
                                 THEN MkdirP(NewFs, WorkspacesRoot \o WsToken(1))
                                 ELSE NewFs]
    /\ localfs = {<<LocalFile, Encode(<<"h", "é">>)>>}
    /\ phase = "boot"
    /\ uuids = 0
    /\ th = [t \in Threads |-> IdleThread]
    /\ created = {}
    /\ returned = {}
    /\ cleaned = {}
    /\ budget = NoBudget
    /\ last = NoLast

DownPaths == {None, <<"a">>, <<"/", "a">>}

\* the nine public operations
NextDown ==
    \/ start_persistent_container
    \/ Quiet /\ sandbox_initialize_call(1)
    \/ sandbox_initialize_standalone(0)
    \/ \E c \in Ids, cmds \in BatchesUpTo(1), w \in WsArgs :
          sandbox_exec(c, cmds, w, FALSE, FALSE, 0, 0, 0)
    \/ \E c \in Ids, w \in WsArgs, p \in DownPaths :
          write_file_sandbox(c, <<"a">>, Hello, w, p, 0)
    \/ \E c \in Ids, src \in {LocalFile, LocalMissing}, w \in WsArgs, p \in DownPaths :
          copy_file(c, src, w, p, 0)
    \/ \E c \in Ids, w \in WsArgs, p \in DownPaths :
          copy_project(c, ProjDir, w, p, 0)
    \/ \E c \in Ids, w \in WsArgs, p \in DownPaths :
          copy_file_from_sandbox(c, <<"a">>, w, p, 0)
    \/ \E c \in Ids, p \in BOOLEAN :
          sandbox_stop(c, p, 0)
    \/ \E c \in Ids, w \in WsArgs \ {None} :
          clean_workspace(c, w, 0)
    \/ \E c \in Ids :
          get_container_logs(c, 0)

SpecDown == InitDown /\ [][NextDown]_vars

PublicOps ==
    {"sandbox_initialize", "sandbox_exec", "write_file_sandbox", "copy_file",
     "copy_project", "copy_file_from_sandbox", "sandbox_stop", "clean_workspace",
     "get_container_logs"}

\* every call served is answered with the fixed engine-unavailable error and
\* has made no engine call
RefusedUnavailable ==
    last.op \in PublicOps =>
        /\ ~last.ok
        /\ last.err = <<"unavailable">>
        /\ last.keys = {"success", "error"}
        /\ last.calls = <<>>

\* C9: after a start that found the engine unreachable, every public operation
\* returns the fixed engine-unavailable error and makes no engine call, the
\* cached persistent identity stays as it was, the engine and the local files
\* are not touched, and the flag is never set again.
C9_UnavailableIsPermanent ==
    /\ [](~docker_available /\ RefusedUnavailable)
    /\ [][/\ docker_available' = docker_available
          /\ persistent_container_id' = persistent_container_id
          /\ containers' = containers /\ fs' = fs /\ localfs' = localfs
          /\ created' = created]_vars

\* a command batch is refused although the container it names is running
C9_Witness ==
    /\ ~docker_available
    /\ last.op = "sandbox_exec" /\ last.commands = <<CmdTrue>>
    /\ Running(last.cid)
    /\ last.err = <<"unavailable">> /\ last.calls = <<>>

----------------------------------------------------------------------------
(* clean_workspace on every workspace_id value *)

\* the workspace_id values a caller passes: the two tokens the server issued,
\* every short string, and a path from one workspace to the other
CleanIds ==
    {WsToken(1), WsToken(2)} \cup StringsUpTo(MaxPathLen)
       \cup {WsToken(1) \o <<"/", ".", ".", "/">> \o WsToken(2)}

\* as InitFiles
InitClean ==
    /\ Settled([limited |-> TRUE, left |-> MaxOps])
    /\ uuids = 2
    /\ \E other \in {NoContainer, [state |-> "running", named |-> FALSE]} :
          containers = [i \in Ids |-> IF i = 1 THEN PersistentProfile ELSE other]
    /\ fs = [i \in Ids |->
                IF i = 1
                THEN PutEntry(MkdirP(MkdirP(NewFs, WorkspacesRoot \o WsToken(1)),
                                     WorkspacesRoot \o WsToken(2)),
                              Location(WorkspacesRoot \o WsToken(1)), <<"a">>, ProjBytes)
                ELSE NewFs]

NextClean ==
    \E c \in Ids, w \in CleanIds, fault \in 0..2 : clean_workspace(c, w, fault)

SpecClean == InitClean /\ [][NextClean]_vars

\* C15: clean_workspace(c, w), for every workspace_id value w, leaves the
\* containers and the cached persistent id as they were, and leaves the tree of
\* every other workspace, in this container and in the others, as it was.
C15_CleanTouchesOnlyItsWorkspace ==
    [][last'.op = "clean_workspace" =>
          /\ containers' = containers
          /\ persistent_container_id' = persistent_container_id
          /\ \A c \in Ids, n \in 1..uuids :
                WsToken(n) # last'.ws => TreeOf(fs'[c], WsToken(n)) = TreeOf(fs[c], WsToken(n))]_vars

----------------------------------------------------------------------------
(* Stopping a standalone container, and the operations that come after *)

\* the persistent container, and a standalone container that runs or has exited
InitStop ==
    /\ Settled([limited |-> TRUE, left |-> MaxOps])
    /\ uuids = 2
    /\ \E st \in {"running", "exited"} :
          containers = [i \in Ids |-> IF i = 1 THEN PersistentProfile
                                      ELSE [state |-> st, named |-> FALSE]]
    /\ fs = [i \in Ids |-> IF i = 1
                           THEN MkdirP(NewFs, WorkspacesRoot \o WsToken(1))
                           ELSE NewFs]

\* the engine answers every lookup; stop() or remove() may raise
NextStop ==
    \/ \E c \in Ids, p \in BOOLEAN, fault \in {0, 2, 3} : sandbox_stop(c, p, fault)
    \/ \E c \in Ids : sandbox_exec(c, <<CmdTrue>>, None, TRUE, FALSE, 0, 0, 0)
    \/ \E c \in Ids : write_file_sandbox(c, <<"a">>, Hello, None, None, 0)
    \/ \E c \in Ids : copy_file(c, LocalFile, None, None, 0)
    \/ \E c \in Ids : copy_project(c, ProjDir, None, None, 0)
    \/ \E c \in Ids : copy_file_from_sandbox(c, <<"/", "app">>, None, <<"o">>, 0)
    \/ \E c \in Ids : clean_workspace(c, WsToken(1), 0)
    \/ \E c \in Ids : get_container_logs(c, 0)

SpecStop == InitStop /\ [][NextStop]_vars

\* a step in which sandbox_stop(container_id, is_persistent=False) on a
\* standalone container returns success
StandaloneStopped ==
    /\ last'.op = "sandbox_stop" /\ ~last'.flag /\ last'.ok
    /\ budget' # budget
    /\ Exists(last'.cid) /\ ~containers[last'.cid].named
    /\ last'.cid # persistent_container_id

\* the engine was asked to stop the container, then to remove it, and it is gone
StopDestroys ==
    StandaloneStopped =>
        /\ last'.calls = <<Call("get", <<>>), Call("stop", <<>>), Call("remove", <<>>)>>
        /\ containers'[last'.cid].state = "removed"

\* a step that serves an operation on a container_id whose container was removed
OnRemoved ==
    /\ budget' # budget
    /\ last'.op \in PublicOps
    /\ last'.cid \in Ids
    /\ containers[last'.cid].state = "removed"

NotFoundResult == ~last'.ok /\ last'.err = <<"failed", "NotFound">>

\* C14 as claimed: a successful sandbox_stop(container_id, is_persistent=False)
\* on a standalone container stops and removes it, and every later operation on
\* that container_id fails with not-found.
C14_Claimed ==
    [][/\ StopDestroys
       /\ OnRemoved => NotFoundResult]_vars

\* C14: a successful sandbox_stop(container_id, is_persistent=False) on a
\* standalone container stops and removes it, and every later operation on that
\* container_id fails with not-found, except sandbox_stop with
\* is_persistent=True, which returns success without asking the engine.
C14_StandaloneStopDestroys ==
    [][/\ StopDestroys
       /\ (OnRemoved /\ ~(last'.op = "sandbox_stop" /\ last'.flag)) => NotFoundResult]_vars

\* commands are sent to a standalone container that an earlier stop removed
C14_Witness ==
    /\ last.op = "sandbox_exec"
    /\ last.cid = 2 /\ containers[2].state = "removed"
    /\ ~last.ok /\ last.err = <<"failed", "NotFound">>
    /\ last.calls = <<Call("get", <<>>)>>

----------------------------------------------------------------------------
(* Every operation with the engine failing at each of its calls *)

\* as Init, with a bound on the requests served
InitFaults ==
    /\ docker_available = TRUE
    /\ persistent_container_id = 0
    /\ container_lock = 0
    /\ \E pre \in {"none", "running", "exited"} :
          /\ containers = [i \in Ids |-> IF i = 1 /\ pre # "none" THEN Leftover(pre)
                                         ELSE NoContainer]
          /\ fs = [i \in Ids |-> IF i = 1 /\ pre # "none" THEN MkdirP(NewFs, WorkspacesRoot)
                                 ELSE NewFs]
    /\ localfs = {<<LocalFile, Encode(<<"h", "é">>)>>}
    /\ phase = "boot"
    /\ uuids = 0
    /\ th = [t \in Threads |-> IdleThread]
    /\ created = {}
    /\ returned = {}
    /\ cleaned = {}
    /\ budget = [limited |-> TRUE, left |-> MaxOps]
    /\ last = NoLast

NextFaults ==
    \/ start_persistent_container
    \/ Quiet /\ sandbox_initialize_call(1)
    \/ ThreadStep(1)
    \/ \E fault \in Faults : sandbox_initialize_standalone(fault)
    \/ \E p \in BOOLEAN, fault \in Faults : sandbox_stop(1, p, fault)
    \/ \E fault \in Faults : get_container_logs(1, fault)
    \/ \E fault \in Faults : clean_workspace(1, WsToken(1), fault)
    \/ \E fault \in Faults : write_file_sandbox(1, <<"a">>, Hello, None, None, fault)
    \/ \E src \in {LocalFile, LocalMissing}, fault \in Faults :
          copy_file(1, src, None, None, fault)
    \/ \E src \in {ProjDir, LocalMissing}, fault \in Faults :
          copy_project(1, src, None, None, fault)
    \/ \E src \in {<<"/", "app">>, <<"/", "app", "/", "a">>}, fault \in Faults :
          copy_file_from_sandbox(1, src, None, <<"o">>, fault)
    \/ \E cmd \in {CmdTrue, CmdBinary}, get_fault \in BOOLEAN, cmd_fault \in 0..1 :
          sandbox_exec(1, <<cmd>>, None, TRUE, get_fault, 0, 0, cmd_fault)

SpecFaults == InitFaults /\ [][NextFaults]_vars

\* C12: every public operation answers with a dict that has "success"; when an
\* engine call or a decoding failed the dict is {"success": False, "error": ...}
\* and holds no container_id, workspace_id, results, file_path, local_path or logs.
C12_FailuresAreStructured ==
    last.op \in PublicOps =>
        /\ "success" \in last.keys
        /\ last.ok => "error" \notin last.keys
        /\ ~last.ok => /\ last.keys = {"success", "error"}
                       /\ last.err # <<>> /\ last.err[1] # "raised"
                       /\ last.ret_cid = 0 /\ last.ret_ws = None
                       /\ last.results = <<>> /\ last.path = <<>> /\ last.size = 0

\* sandbox_initialize created the persistent container, then failed to make the
\* workspace directory in it
C12_Witness ==
    /\ last.op = "sandbox_initialize" /\ last.flag
    /\ ~last.ok /\ last.err = <<"failed", "EngineError">>
    /\ created # {}
    /\ last.keys = {"success", "error"}

----------------------------------------------------------------------------
(* Two workspaces of one container: requests on the one, then on the other *)

\* a request and the request served right after it
TwoRequests == [limited |-> TRUE, left |-> 2]

\* the persistent container holds the workspaces w1 and w2
InitWs ==
    /\ Settled(TwoRequests)
    /\ uuids = 2
    /\ containers = [i \in Ids |-> IF i = 1 THEN PersistentProfile ELSE NoContainer]
    /\ fs = [i \in Ids |->
                IF i = 1
                THEN MkdirP(MkdirP(NewFs, WorkspacesRoot \o WsToken(1)),
                            WorkspacesRoot \o WsToken(2))
                ELSE NewFs]

Tokens == {WsToken(1), WsToken(2)}

\* the destinations that do not start with a separator, and the omitted one
RelPaths == {p \in StringsUpTo(MaxPathLen) : ~startswith_slash(p)} \cup {None}

NextWs ==
    \/ \E w \in Tokens, p \in RelPaths : write_file_sandbox(1, <<"a">>, Hello, w, p, 0)
    \/ \E w \in Tokens, p \in RelPaths : copy_file(1, LocalFile, w, p, 0)
    \/ \E w \in Tokens, p \in RelPaths : copy_project(1, ProjDir, w, p, 0)
    \/ \E w \in Tokens, cmd \in {CmdTrue, CmdPython} :
          sandbox_exec(1, <<cmd>>, w, TRUE, FALSE, 0, 0, 0)
    \/ \E w \in Tokens : clean_workspace(1, w, 0)

SpecWs == InitWs /\ [][NextWs]_vars

\* the places of the container a served request named: the directories given to
\* mkdir -p, put_archive and rm -rf, the working directory of a command, and the
\* path the answer reports
Addressed(l) ==
    {Location(l.calls[j].path) :
        j \in {k \in 1..Len(l.calls) : l.calls[k].call \in {"mkdir", "put_archive", "rm"}}}
    \cup (IF \E j \in 1..Len(l.calls) : l.calls[j].call = "exec"
          THEN {Location(WorkingDir(l.ws))} ELSE {})
    \cup (IF l.ok /\ l.path # <<>> THEN {Location(l.path)} ELSE {})

OnWorkspace(l) ==
    /\ l.op \in {"write_file_sandbox", "copy_file", "copy_project", "sandbox_exec",
                 "clean_workspace"}
    /\ l.ws \in Tokens

\* the request took a destination with a ".." segment
DotDotRequest(l) == l.arg # None /\ HasDotDot(l.arg)

\* C19 as stated: two requests on different workspace tokens, with relative
\* destinations, address no place in common.
C19_Claimed ==
    [][OnWorkspace(last) /\ OnWorkspace(last') /\ last.ws # last'.ws
          => Addressed(last) \cap Addressed(last') = {}]_vars

\* C19: two requests on different workspace tokens, with relative destinations
\* that hold no ".." segment, address no place in common, and each addresses
\* places of its own workspace only.
C19_DistinctTokensDisjointPaths ==
    [][OnWorkspace(last) /\ OnWorkspace(last') /\ last.ws # last'.ws
       /\ ~DotDotRequest(last) /\ ~DotDotRequest(last')
          => /\ Addressed(last) \cap Addressed(last') = {}
             /\ \A a \in Addressed(last') : IsPrefix(Location(WorkspacesRoot \o last'.ws), a)]_vars

\* a file written into a directory of w2 right after w1 was cleaned: both
\* requests named places, and the write is in the container
C19_Witness ==
    /\ budget.left = 0
    /\ last.op = "write_file_sandbox" /\ last.ok
    /\ last.ws = WsToken(2) /\ last.arg = <<"a">>
    /\ cleaned = {<<1, WsToken(1)>>}
    /\ ~IsDir(fs[1], Location(WorkspacesRoot \o WsToken(1)))
    /\ Cardinality(Addressed(last)) = 2

----------------------------------------------------------------------------
(* The lock of ensure_persistent_container: every engine call returns or raises *)

\* the positions inside "with container_lock:"
GuardedPcs == {"ens_cache", "ens_byname", "ens_start", "ens_pull", "ens_run", "ens_mkdir"}

\* the steps of ensure_persistent_container, lines 63-124
LockStep(t) ==
    \/ ens_lock(t)
    \/ ens_cache(t)
    \/ ens_byname(t)
    \/ ens_start(t)
    \/ ens_pull(t)
    \/ ens_run(t)
    \/ ens_mkdir(t)

\* the start of the process and callers of ensure_persistent_container that
\* overlap
NextLock ==
    \/ start_persistent_container
    \/ \E t \in Threads : ensure_call(t)
    \/ \E t \in Threads : LockStep(t)

\* a call that is under way takes its next step: every engine call returns or
\* raises, and a thread that finds the lock free for good takes it
EngineAnswers == \A t \in Threads : WF_vars(LockStep(t))

SpecLock == Init /\ [][NextLock]_vars /\ EngineAnswers

NoCallInside == \A t \in Threads : th[t].pc \notin GuardedPcs

Waits(t) == th[t].pc = "ens_lock"

Enters(t) == th[t].pc = "ens_cache" /\ container_lock = t

\* C21: whenever no call is inside the guarded section of
\* ensure_persistent_container the lock is free, whichever way the last call
\* left it, and whenever a call waits for the lock a call enters the guarded
\* section later on.
C21_LockReleasedOnEveryExit ==
    /\ [](NoCallInside => container_lock = 0)
    /\ \A t \in Threads : Waits(t) ~> \E u \in Threads : Enters(u)

\* a call entered the guarded section after the call before it left by an
\* exception
C21_Witness ==
    /\ last.op = "ensure_persistent_container"
    /\ last.err = <<"raised", "EngineError">>
    /\ \E t \in Threads : Enters(t)

----------------------------------------------------------------------------
(* The workspace directory sandbox_initialize reports *)

\* a file name a caller may give to write_file_sandbox
WorkspacesName == <<"workspaces">>

\* the server from its start: sandbox_initialize(use_persistent=True), files
\* written into /app, and workspaces cleaned, one request at a time
NextSpace ==
    \/ start_persistent_container
    \/ Quiet /\ sandbox_initialize_call(1)
    \/ ThreadStep(1)
    \/ \E c \in Ids, name \in {<<"a">>, WorkspacesName} :
          write_file_sandbox(c, name, Hello, None, None, 0)
    \/ \E c \in Ids, w \in {<<>>, WsToken(1)} : clean_workspace(c, w, 0)

SpecSpace == Init /\ [][NextSpace]_vars

\* C22: when sandbox_initialize(use_persistent=True) has returned success with a
\* workspace_id and a workspace_path, /app/workspaces/<workspace_id> is a
\* directory of the container it returned.
C22_ReportedWorkspaceExists ==
    (last.op = "sandbox_initialize" /\ last.flag /\ last.ok /\ last.ret_ws # None)
        => /\ last.path = WorkspacesRoot \o last.ret_ws
           /\ IsDir(fs[last.ret_cid], Location(last.path))

====
